---- MODULE Spec2Model ----
(***************************************************************************)
(* Particle simulation of src/main.c: a fixed array of typed particles on  *)
(* a WIDTH x HEIGHT plane, advanced once per frame of the main loop by the *)
(* pairwise force loop of lines 150-218.                                   *)
(*                                                                         *)
(* Numbers.  The program computes in C float.  The model computes in      *)
(* fixed point: one unit is 1/SCALE of a pixel, every division truncates   *)
(* toward zero and sqrt is the integer square root.  The one non-finite   *)
(* value the loop can produce from finite input, the NaN of a division by  *)
(* a zero r_squared, is modelled as the value NaN, with the IEEE rules     *)
(* the code relies on: arithmetic on NaN gives NaN, every comparison with  *)
(* NaN is false.                                                           *)
(***************************************************************************)
EXTENDS Integers, FiniteSets, Sequences, TLC

\* ---------------------------------------------------------------- constants

WIDTH == 1000
HEIGHT == 1000
SQUARED_RADIUS_MIN == 100
\* COEFFICIENT is 5 * 1e-3: the numerator and the denominator of 5/1000.
COEFFICIENT_NUM == 5
COEFFICIENT_DEN == 1000
\* The magnitude of `float coefficient = -1e4`.
COEFFICIENT_MAGNITUDE == 10000
\* `i % 3`: the number of particle types.
NUM_TYPES == 3

\* ------------------------------------------------------------------- bounds

\* Units per pixel of the fixed-point coordinates.
SCALE == 8
\* NUM_PARTICLES is 600; the model runs populations of 1..MaxParticles.
MaxParticles == 3
\* Frames of the main loop the model runs.
MaxTicks == 2
\* Largest coordinate magnitude (in units) the fixed-point arithmetic takes.
MaxCoord == 16000

\* Initial pixel coordinates: a subset of the values rand() % (WIDTH + 1) and
\* rand() % (HEIGHT + 1) can give, chosen around the seam, the cutoff radius
\* and the half-domain tie.
InitXs == {1, 10, 500, 990, 999, 1000}
InitYs == {3, 1000}

\* ------------------------------------------------------------------ numbers

\* Not-a-number: a value no coordinate, delta or displacement can take.
NaN == -1000000000

W == WIDTH * SCALE
H == HEIGHT * SCALE

Abs(a) == IF a < 0 THEN -a ELSE a
Sign(a) == IF a < 0 THEN -1 ELSE IF a > 0 THEN 1 ELSE 0

FAdd(a, b) == IF a = NaN \/ b = NaN THEN NaN ELSE a + b
FSub(a, b) == IF a = NaN \/ b = NaN THEN NaN ELSE a - b
FMul(a, b) == IF a = NaN \/ b = NaN THEN NaN ELSE a * b
FGt(a, b) == a # NaN /\ b # NaN /\ a > b
FLt(a, b) == a # NaN /\ b # NaN /\ a < b

RECURSIVE ISqrtBetween(_, _, _)
ISqrtBetween(n, lo, hi) ==
    IF lo = hi THEN lo
    ELSE LET mid == (lo + hi + 1) \div 2
         IN  IF mid * mid <= n THEN ISqrtBetween(n, mid, hi)
             ELSE ISqrtBetween(n, lo, mid - 1)

\* sqrt(r_squared), rounded down to a whole unit.
ISqrt(n) == ISqrtBetween(n, 0, 46340)

\* ----------------------------------------------------------------- state

VARIABLES
    particles,  \* the global array: index -> [type, x, y], x and y in units
    i,          \* the outer loop's index; i = number of particles between frames
    tick,       \* frames begun so far
    start,      \* the array as it was when the current frame's loop began
    new,        \* per particle updated this frame: its [new_x, new_y]
    inner       \* per particle updated this frame: the inner loop's locals per j

vars == <<particles, i, tick, start, new, inner>>

Num == Cardinality(DOMAIN particles)
Indices == DOMAIN particles

\* ----------------------------------------------------------------- the loop

\* Shortest with the comparison of the two seam deltas turned around.
ShortestSeamSwapped(pos_n, pos_jb, pos_ib) ==
    IF FGt(FMul(pos_n, pos_n), FMul(pos_jb, pos_jb))
    THEN (IF FGt(FMul(pos_jb, pos_jb), FMul(pos_ib, pos_ib)) THEN pos_jb ELSE pos_ib)
    ELSE (IF FGt(FMul(pos_n, pos_n), FMul(pos_ib, pos_ib)) THEN pos_ib ELSE pos_n)

\* Lines 157-160 and 163-166: the shortest of the direct delta and the two
\* deltas across the seam.
Shortest(pos_n, pos_jb, pos_ib) ==
    IF FGt(FMul(pos_n, pos_n), FMul(pos_jb, pos_jb))
    THEN (IF FGt(FMul(pos_jb, pos_jb), FMul(pos_ib, pos_ib)) THEN pos_ib ELSE pos_jb)
    ELSE (IF FGt(FMul(pos_n, pos_n), FMul(pos_ib, pos_ib)) THEN pos_ib ELSE pos_n)

XPos(xi, xj) ==
    Shortest(FSub(xi, xj), FAdd(FSub(xi, xj), W), FSub(FSub(xi, xj), W))

\* The y axis adds and subtracts WIDTH too (lines 164-165).
YPos(yi, yj) ==
    Shortest(FSub(yi, yj), FAdd(FSub(yi, yj), W), FSub(FSub(yi, yj), W))

\* CoefficientOf without its first branch: a pair of type 0 falls through to
\* the branch of equal types.
CoefficientOfNoFirstBranch(ti, tj) ==
    LET coefficient == -COEFFICIENT_MAGNITUDE
    IN  IF ti = tj THEN coefficient * 1
        ELSE IF ti = 0 /\ tj = 1 THEN coefficient * 1
        ELSE IF ti = 1 /\ tj = 0 THEN coefficient * (-1)
        ELSE IF ti = 0 /\ tj = 2 THEN coefficient * (-1)
        ELSE IF ti = 2 /\ tj = 0 THEN coefficient * 1
        ELSE IF ti = 1 /\ tj = 2 THEN coefficient * 1
        ELSE IF ti = 2 /\ tj = 1 THEN coefficient * (-1)
        ELSE 0

\* Lines 173-202: the if/else chain over the two types.
CoefficientOf(ti, tj) ==
    LET coefficient == -COEFFICIENT_MAGNITUDE
    IN  IF ti = 0 /\ tj = 0 THEN coefficient * (-1)
        ELSE IF ti = tj THEN coefficient * 1
        ELSE IF ti = 0 /\ tj = 1 THEN coefficient * 1
        ELSE IF ti = 1 /\ tj = 0 THEN coefficient * (-1)
        ELSE IF ti = 0 /\ tj = 2 THEN coefficient * (-1)
        ELSE IF ti = 2 /\ tj = 0 THEN coefficient * 1
        ELSE IF ti = 1 /\ tj = 2 THEN coefficient * 1
        ELSE IF ti = 2 /\ tj = 1 THEN coefficient * (-1)
        ELSE 0

\* Cutoff without the test of the coefficient's sign.
CutoffAnySign(coefficient, r_squared) ==
    FLt(r_squared, SQUARED_RADIUS_MIN * SCALE * SCALE)

\* Line 204: the cutoff. SQUARED_RADIUS_MIN is in pixels squared.
Cutoff(coefficient, r_squared) ==
    coefficient < 0 /\ FLt(r_squared, SQUARED_RADIUS_MIN * SCALE * SCALE)

\* Term with the delta taken from i to j instead of from j to i.
TermReversed(coefficient, pos, r_squared) ==
    IF pos = NaN \/ r_squared = NaN THEN NaN
    ELSE IF r_squared = 0 THEN NaN
    ELSE LET strength == (Abs(coefficient) * COEFFICIENT_NUM) \div COEFFICIENT_DEN
             scaled == strength * (SCALE * SCALE * SCALE) * Abs(pos)
             magnitude == (scaled \div r_squared) \div ISqrt(r_squared)
         IN  (Sign(coefficient) * Sign(-pos)) * magnitude

\* Lines 171 and 206-207: coefficient * (COEFFICIENT / r_squared) * pos /
\* sqrt(r_squared), in units.  A zero r_squared makes speed infinite and pos
\* zero, and infinity times zero is NaN.
Term(coefficient, pos, r_squared) ==
    IF pos = NaN \/ r_squared = NaN THEN NaN
    ELSE IF r_squared = 0 THEN NaN
    ELSE LET strength == (Abs(coefficient) * COEFFICIENT_NUM) \div COEFFICIENT_DEN
             scaled == strength * (SCALE * SCALE * SCALE) * Abs(pos)
             magnitude == (scaled \div r_squared) \div ISqrt(r_squared)
         IN  (Sign(coefficient) * Sign(pos)) * magnitude

\* Lines 157-207: one iteration of the inner loop, for the pair (a, b) of the
\* array ps: its locals, and what it adds to new_x and new_y.
Pair(ps, a, b) ==
    LET x_pos == XPos(ps[a].x, ps[b].x)
        y_pos == YPos(ps[a].y, ps[b].y)
        r_squared == FAdd(FMul(x_pos, x_pos), FMul(y_pos, y_pos))
        coefficient == CoefficientOf(ps[a].type, ps[b].type)
        skipped == Cutoff(coefficient, r_squared)
    IN  [x_pos |-> x_pos, y_pos |-> y_pos, r_squared |-> r_squared,
         coefficient |-> coefficient, skipped |-> skipped,
         tx |-> IF skipped THEN 0 ELSE Term(coefficient, x_pos, r_squared),
         ty |-> IF skipped THEN 0 ELSE Term(coefficient, y_pos, r_squared)]

\* Others without the `if(j == i) continue`.
OthersAndSelf(ps, a) == DOMAIN ps

\* Line 155: the indices j the inner loop does not skip for particle a.
Others(ps, a) == DOMAIN ps \ {a}

RECURSIVE SumX(_, _), SumY(_, _)
SumX(terms, js) ==
    IF js = {} THEN 0
    ELSE LET j == CHOOSE k \in js : \A m \in js : k <= m
         IN  FAdd(terms[j].tx, SumX(terms, js \ {j}))
SumY(terms, js) ==
    IF js = {} THEN 0
    ELSE LET j == CHOOSE k \in js : \A m \in js : k <= m
         IN  FAdd(terms[j].ty, SumY(terms, js \ {j}))

\* Lines 151-208: the inner loop of particle a over the array ps.
InnerLoop(ps, a) == [j \in Others(ps, a) |-> Pair(ps, a, j)]

\* Lines 206-207: new_x and new_y after the terms of an inner loop are added.
SumOf(terms) ==
    [new_x |-> SumX(terms, DOMAIN terms), new_y |-> SumY(terms, DOMAIN terms)]

\* new_x and new_y when the inner loop of particle a ends.
Accumulated(ps, a) == SumOf(InnerLoop(ps, a))

\* Lines 212-213.
WrapX(x) ==
    LET x1 == IF FGt(x, W) THEN FSub(x, W) ELSE x
    IN  IF FLt(x1, 0) THEN FAdd(x1, W) ELSE x1

\* Lines 214-215: above HEIGHT the code subtracts WIDTH.
WrapY(y) ==
    LET y1 == IF FGt(y, H) THEN FSub(y, W) ELSE y
    IN  IF FLt(y1, 0) THEN FAdd(y1, H) ELSE y1

\* InitType over two types instead of three.
InitTypeOfTwo(k) == k % 2

\* Line 33.
InitType(k) == k % NUM_TYPES

\* Whether the fixed-point arithmetic can take the array's coordinates.
Representable(ps) ==
    \A k \in DOMAIN ps :
        /\ ps[k].x = NaN \/ Abs(ps[k].x) <= MaxCoord
        /\ ps[k].y = NaN \/ Abs(ps[k].y) <= MaxCoord

\* ---------------------------------------------------------------- actions

\* Lines 29-34, for a population of n particles.
Init ==
    /\ \E n \in 1..MaxParticles :
         \E xs \in [0..(n - 1) -> InitXs], ys \in [0..(n - 1) -> InitYs] :
            particles = [k \in 0..(n - 1) |->
                           [type |-> InitType(k), x |-> xs[k] * SCALE, y |-> ys[k] * SCALE]]
    /\ i = Num
    /\ tick = 0
    /\ start = particles
    /\ new = <<>>
    /\ inner = <<>>

\* Lines 101-150: a new frame of the main loop reaches the force loop.
BeginFrame ==
    /\ i = Num
    /\ tick < MaxTicks
    /\ i' = 0
    /\ tick' = tick + 1
    /\ start' = particles
    /\ new' = <<>>
    /\ inner' = <<>>
    /\ UNCHANGED particles

\* Lines 150-218: one iteration of the outer loop, for particle i.
UpdateParticle ==
    /\ i < Num
    /\ Representable(particles)
    /\ inner' = (i :> InnerLoop(particles, i)) @@ inner
    /\ new' = (i :> SumOf(inner'[i])) @@ new
    /\ particles' = [particles EXCEPT
            ![i].x = WrapX(FAdd(particles[i].x, new'[i].new_x)),
            ![i].y = WrapY(FAdd(particles[i].y, new'[i].new_y))]
    /\ i' = i + 1
    /\ UNCHANGED <<tick, start>>

Next == BeginFrame \/ UpdateParticle

Spec == Init /\ [][Next]_vars

\* ------------------------------------------------------------ observations

\* A frame's loop has run to its end at least once.
TickCompleted == i = Num /\ tick >= 1

\* The particles whose iteration of the outer loop has run in this frame.
Processed == DOMAIN new

\* Particle j as the iteration of particle k read it: the particles before k
\* already hold this frame's new coordinates, k and the later ones still hold
\* the coordinates the frame began with.
ReadBy(k, j) == IF j < k THEN particles[j] ELSE start[j]

Finite(ps) == \A k \in DOMAIN ps : ps[k].x # NaN /\ ps[k].y # NaN

Types == 0..(NUM_TYPES - 1)

\* The threshold of the cutoff, in units squared.
RadiusMin == SQUARED_RADIUS_MIN * SCALE * SCALE

\* ------------------------------------------------------------------- claims

\* C1: within one tick the accumulated displacement of every particle is
\* computed from the positions all particles had when the tick began; no
\* position is written before all displacement sums are computed.
C1_DisplacementFromTickStart ==
    \A k \in Processed : new[k] = Accumulated(start, k)

\* C2: after every completed tick every particle has 0 <= x < WIDTH and
\* 0 <= y < HEIGHT.
C2_InDomainAfterTick ==
    TickCompleted =>
        \A k \in Indices :
            /\ particles[k].x # NaN /\ 0 <= particles[k].x /\ particles[k].x < W
            /\ particles[k].y # NaN /\ 0 <= particles[k].y /\ particles[k].y < H

\* C3: the tick never divides by a zero r_squared: a pair at zero toroidal
\* separation whose coefficient is not negative is skipped or contributes
\* zero, and no position is ever non-finite.
C3_NoDivisionByZero ==
    /\ Finite(particles)
    /\ \A k \in DOMAIN inner : \A j \in DOMAIN inner[k] :
          (inner[k][j].r_squared = 0 /\ inner[k][j].coefficient >= 0)
              => (inner[k][j].tx = 0 /\ inner[k][j].ty = 0)

\* The reference table of the type coefficients, in units of K = 1e4.
ReferenceSign(ti, tj) ==
    IF <<ti, tj>> \in {<<0, 0>>, <<1, 0>>, <<0, 2>>, <<2, 1>>} THEN 1 ELSE -1

\* C4: for every ordered pair of types the coefficient used for particle i's
\* displacement due to particle j is the reference table's, with K = 1e4:
\* never 0, and of opposite sign for the two orders of two distinct types.
C4_CoefficientTable ==
    /\ \A a \in Types, b \in Types :
          /\ CoefficientOf(a, b) = ReferenceSign(a, b) * 10000
          /\ CoefficientOf(a, b) # 0
          /\ a # b => CoefficientOf(a, b) = -CoefficientOf(b, a)
    /\ \A k \in DOMAIN inner : \A j \in DOMAIN inner[k] :
          inner[k][j].coefficient
              = ReferenceSign(particles[k].type, particles[j].type) * 10000

\* All six ordered pairs of distinct types have been through the inner loop.
C4_Witness ==
    /\ Num = 3
    /\ DOMAIN inner = Indices
    /\ inner[1][0].coefficient = 10000
    /\ inner[0][1].coefficient = -10000

\* The candidate of <<d, d + size, d - size>> with the smallest magnitude, the
\* first such in that order.
FirstSmallest(d, size) ==
    LET c == <<d, d + size, d - size>>
        m == CHOOSE n \in 1..3 :
                /\ \A o \in 1..3 : Abs(c[n]) <= Abs(c[o])
                /\ \A o \in 1..(n - 1) : Abs(c[o]) > Abs(c[n])
    IN  c[m]

InDomain(p) ==
    /\ p.x # NaN /\ 0 <= p.x /\ p.x <= W
    /\ p.y # NaN /\ 0 <= p.y /\ p.y <= H

\* C5: for every pair of positions in the domain and each axis on its own, the
\* delta used is the candidate of {d, d + size, d - size} of smallest squared
\* magnitude, ties resolved in the order direct, +size, -size, size being the
\* size of that axis; x = 1 and x = WIDTH - 1 give a delta of magnitude 2.
C5_ShortestDelta ==
    /\ Abs(XPos(1 * SCALE, (WIDTH - 1) * SCALE)) = 2 * SCALE
    /\ \A k \in DOMAIN inner : \A j \in DOMAIN inner[k] :
          LET pi == ReadBy(k, k)
              pj == ReadBy(k, j)
          IN  (InDomain(pi) /\ InDomain(pj)) =>
                 /\ inner[k][j].x_pos = FirstSmallest(pi.x - pj.x, W)
                 /\ inner[k][j].y_pos = FirstSmallest(pi.y - pj.y, H)

\* Particle 0 at (1, 3) has read particle 1 at (WIDTH - 1, HEIGHT) across the
\* seam of both axes.
C5_Witness ==
    /\ 0 \in DOMAIN inner /\ 1 \in DOMAIN inner[0]
    /\ start[0].x = 1 * SCALE /\ start[1].x = (WIDTH - 1) * SCALE
    /\ start[0].y = 3 * SCALE /\ start[1].y = HEIGHT * SCALE
    /\ inner[0][1].x_pos = 2 * SCALE
    /\ inner[0][1].y_pos = 3 * SCALE

\* C6: a pair whose coefficient is negative and whose r_squared is below the
\* minimum threshold contributes exactly zero to the accumulated displacement;
\* a pair whose coefficient is not negative is never skipped by the cutoff.
C6_Cutoff ==
    \A k \in DOMAIN inner :
        /\ \A j \in DOMAIN inner[k] :
              LET p == inner[k][j]
                  below == p.r_squared # NaN /\ p.r_squared < RadiusMin
              IN  /\ (p.coefficient < 0 /\ below) =>
                         (p.skipped /\ p.tx = 0 /\ p.ty = 0)
                  /\ p.coefficient >= 0 =>
                         /\ ~p.skipped
                         /\ (below /\ p.r_squared > 0) => (p.tx # 0 \/ p.ty # 0)
        /\ new[k] = SumOf(inner[k])

\* One particle has skipped an attracting neighbour inside the radius and has
\* been pushed by a repelling neighbour inside the radius.
C6_Witness ==
    \E k \in DOMAIN inner : \E j \in DOMAIN inner[k], l \in DOMAIN inner[k] :
        /\ inner[k][j].coefficient < 0 /\ inner[k][j].skipped
        /\ inner[k][j].r_squared > 0
        /\ inner[k][l].coefficient > 0 /\ inner[k][l].r_squared # NaN
        /\ inner[k][l].r_squared < RadiusMin /\ inner[k][l].r_squared > 0
        /\ inner[k][l].tx # 0
        /\ new[k].new_x = inner[k][l].tx

\* The toroidal separation along x of particles 0 and 1 of the array ps.
SeparationX(ps) == Abs(FirstSmallest(ps[0].x - ps[1].x, W))

\* The case of C7: the first tick of a population of two particles (types 0
\* and 1) that began on one horizontal line, above the cutoff distance, has
\* completed; the two began near enough for the attraction to be at least
\* one unit of the fixed point.
C7_Case ==
    /\ Num = 2
    /\ TickCompleted /\ tick = 1
    /\ start[0].y = start[1].y
    /\ inner[0][1].r_squared >= RadiusMin
    /\ inner[0][1].tx # 0

\* The reference case of C7 in the program's domain: toroidal separation 20.
C7_ReferenceCase == C7_Case /\ SeparationX(start) = 20 * SCALE

\* C7 as claimed: after one tick both particles have moved strictly closer
\* together along the wrapped axis.
C7_StrictlyCloser ==
    C7_Case => SeparationX(particles) < SeparationX(start)

\* C7 as amended: the particle of type 0 has moved toward the particle of
\* type 1 (c(0,1) = -K) and the particle of type 1 has moved away from the
\* particle of type 0 (c(1,0) = +K), not toward it; in the reference case the
\* separation has not shrunk.
C7_ChaseAndFlee ==
    /\ C7_Case =>
          /\ new[0].new_x # 0 /\ Sign(new[0].new_x) = -Sign(inner[0][1].x_pos)
          /\ new[1].new_x # 0 /\ Sign(new[1].new_x) = Sign(inner[1][0].x_pos)
          /\ new[0].new_y = 0 /\ new[1].new_y = 0
    /\ C7_ReferenceCase => SeparationX(particles) >= SeparationX(start)

\* The reference case has run: particles at x = 10 and x = WIDTH - 10.
C7_Witness ==
    /\ C7_ReferenceCase
    /\ start[0].x = 10 * SCALE /\ start[1].x = (WIDTH - 10) * SCALE

\* C8: the accumulated displacement of every particle has, on each axis, a
\* magnitude smaller than the domain size of that axis.
C8_DisplacementBelowDomainSize ==
    \A k \in Processed :
        /\ new[k].new_x # NaN /\ Abs(new[k].new_x) < W
        /\ new[k].new_y # NaN /\ Abs(new[k].new_y) < H

\* C9: the displacement sum of particle i has no term for j = i, and in a
\* population of one the accumulated displacement is zero and the position
\* is unchanged by every tick.
C9_NoSelfInteraction ==
    /\ \A k \in DOMAIN inner : k \notin DOMAIN inner[k]
    /\ Num = 1 =>
          /\ particles = start
          /\ \A k \in Processed : new[k] = [new_x |-> 0, new_y |-> 0]

\* A population of one has completed a tick.
C9_Witness == Num = 1 /\ TickCompleted /\ Processed = Indices

\* C10: the particle at index i has type i mod 3, and no tick changes a type
\* or the number of particles.
C10_TypesAndCountFixed ==
    /\ \A k \in Indices : particles[k].type = k % 3
    /\ DOMAIN start = Indices
    /\ \A k \in Indices : particles[k].type = start[k].type

\* A tick of three particles has completed and has moved a particle.
C10_Witness == Num = 3 /\ TickCompleted /\ particles # start

====
